---- MODULE Spec2Model ----
(***************************************************************************)
(* Model of the crawl scheduling and checkpointed-storage pipeline of      *)
(* src/main.js: the main routine, the async.queue worker pool running      *)
(* workerFunc, the result buffer finishedPages, the flush controller       *)
(* maybeStoreData and the key-value store (keys STATE and PAGES-XXX).      *)
(*                                                                         *)
(* One action is one run-to-completion segment of JavaScript: the code     *)
(* between two awaits.  The external collaborators (Apify.browse and the   *)
(* cookie set-up of main.js:159-166, the in-page scripts, the attachment   *)
(* request, browser.close, Apify.getValue, Apify.setValue) answer          *)
(* nondeterministically with success or failure.  A store write that       *)
(* succeeds is in the store when the awaiting code resumes; one that fails *)
(* has stored nothing.  async.queue runs workerFunc as an async function:  *)
(* a task is finished when the promise settles.  The package type-check    *)
(* is not part of src: its verdict on the input (main.js:116) is left      *)
(* open, the input is accepted or rejected.  lastStoredAt (main.js:62, 97) *)
(* is written and never read and is left out.  Variables marked history    *)
(* are not program state: they record what happened so that the            *)
(* properties can speak about it.                                          *)
(***************************************************************************)
EXTENDS Integers, Sequences, FiniteSets, TLC

\* ------------------------------------------------------------------ bounds
MaxConcurrency == 2      \* largest input.concurrency tried
MaxInterval == 2         \* largest input.storePagesInterval tried
MaxPriorStores == 1      \* batches a previous run left in the store
MaxPriorPages == 2       \* records a previous run left in the store
MaxLinks == 2            \* links one page can yield

\* ------------------------------------------------------- program constants
SUBSCENE_START == "a"                                  \* main.js:11
DEFAULT_STATE == [storeCount |-> 0, pageCount |-> 0]   \* main.js:26-29
DefaultStorePagesInterval == 50                        \* main.js:66
PadWidth == 9                                          \* main.js:85

None == [none |-> TRUE]
Main == 0
Workers == 1..MaxConcurrency
Callers == {Main} \cup Workers
LinkNames == <<"b", "c", "d", "e">>

VARIABLES
  pc,                 \* position of the main routine (Apify.main callback)
  input,              \* the INPUT record: concurrency, storePagesInterval,
                      \* languages (whether it carries a languages array)
  state,              \* in-memory crawler state (main.js:56)
  storePagesInterval, \* flush threshold (main.js:66)
  urls,               \* the frontier array (main.js:125)
  queue,              \* tasks pushed to async.queue and not yet dispatched
  wpc,                \* position of each worker slot of the queue
  page,               \* the page object of each running workerFunc
  finishedPages,      \* result buffer (main.js:59)
  isStoring,          \* flush-in-progress guard (main.js:64)
  flush,              \* locals of each maybeStoreData call past the guard
  kvState,            \* store: value under key STATE, or None
  kvPages,            \* store: function from PAGES-XXX keys to batches
  tally,              \* history: work items dispatched, completed, failed
  pushed,             \* history: URLs pushed to the queue, in order
  loaded,             \* history: the counters main.js:130 started from
  appended,           \* history: records ever pushed to finishedPages
  writeLog,           \* history: successful batch writes of this run
  faulted,            \* history: a store write failed in this run
  lastCall            \* history: the most recent maybeStoreData call

vars == <<pc, input, state, storePagesInterval, urls, queue, wpc, page,
          finishedPages, isStoring, flush, kvState, kvPages, tally,
          pushed, loaded, appended, writeLog, faulted, lastCall>>

\* ------------------------------------------------------------ pure helpers
Min(a, b) == IF a < b THEN a ELSE b

Digit(d) == CASE d = 0 -> "0" [] d = 1 -> "1" [] d = 2 -> "2" [] d = 3 -> "3"
              [] d = 4 -> "4" [] d = 5 -> "5" [] d = 6 -> "6" [] d = 7 -> "7"
              [] d = 8 -> "8" [] d = 9 -> "9"

\* String(n) for a non-negative integer
RECURSIVE NumString(_)
NumString(n) == IF n < 10 THEN Digit(n) ELSE NumString(n \div 10) \o Digit(n % 10)

\* left-pad: prepend ch until the string is len long; longer strings are kept
RECURSIVE leftPad(_, _, _)
leftPad(str, len, ch) == IF Len(str) >= len THEN str ELSE leftPad(ch \o str, len, ch)

\* Array.prototype.splice(start, count) with no inserted items: what remains
Splice(arr, start, count) ==
  LET s == Min(start, Len(arr))
      c == Min(count, Len(arr) - s)
  IN SubSeq(arr, 1, s) \o SubSeq(arr, s + c + 1, Len(arr))

RECURSIVE SumLen(_, _)
SumLen(f, keys) ==
  IF keys = {} THEN 0
  ELSE LET k == CHOOSE x \in keys : TRUE IN Len(f[k]) + SumLen(f, keys \ {k})

TotalRecords(kv) == SumLen(kv, DOMAIN kv)
NumBatches(kv) == Cardinality(DOMAIN kv)

RECURSIVE SumSizes(_)
SumSizes(log) == IF log = <<>> THEN 0 ELSE Head(log).size + SumSizes(Tail(log))

\* -------------------------------------------------------- maybeStoreData
\* main.js:85
BatchKey(st) == "PAGES-" \o leftPad(NumString(st.storeCount + 1), PadWidth, "0")

\* main.js:72
NothingToStore == Len(finishedPages) = 0

\* faulty variant of BelowThreshold: the threshold test is off by one
BelowThreshold_offByOne(force) == ~force /\ Len(finishedPages) <= storePagesInterval

\* main.js:75
BelowThreshold(force) == ~force /\ Len(finishedPages) < storePagesInterval

\* main.js:78
OtherIsStoring == isStoring

\* main.js:72-78: the three early returns
Skips(force) == NothingToStore \/ BelowThreshold(force) \/ OtherIsStoring

\* faulty variant of RemoveStored: one record too few is removed
RemoveStored_offByOne(buf, pagesToStore) == Splice(buf, 0, Len(pagesToStore) - 1)

\* main.js:90
RemoveStored(buf, pagesToStore) == Splice(buf, 0, Len(pagesToStore))

\* main.js:93-94
CountStored(st, pagesToStore) ==
  [storeCount |-> st.storeCount + 1, pageCount |-> st.pageCount + Len(pagesToStore)]

NoFlush == [active |-> FALSE]

\* main.js:70-88: the synchronous prefix of maybeStoreData(force), run by c
Enter(c, force) ==
  /\ lastCall' = [force |-> force, buffered |-> Len(finishedPages),
                  busy |-> isStoring, wrote |-> ~Skips(force)]
  /\ IF Skips(force)
       THEN UNCHANGED <<isStoring, flush>>
       ELSE /\ isStoring' = TRUE
            /\ flush' = [flush EXCEPT ![c] =
                 [active |-> TRUE, force |-> force,
                  pagesToStore |-> finishedPages, key |-> BatchKey(state)]]

\* the caller's position after Enter
AfterEnter(force) == IF Skips(force) THEN "returned" ELSE "awaitPages"

\* ------------------------------------------------------------------ Init
\* the STATE record a previous run left in the store, None when it left none
PriorStates ==
  {None} \cup
  UNION { { [storeCount |-> s, pageCount |-> k] : k \in s..MaxPriorPages } :
            s \in 1..MaxPriorStores }

\* the batches a previous run wrote to reach persisted state st
PriorBatchSize(st, i) == IF i < st.storeCount THEN 1 ELSE st.pageCount - (st.storeCount - 1)
PriorRecord(i, j) == [url |-> SUBSCENE_START, id |-> 0 - (10 * i + j), errorInfo |-> FALSE]
PriorPages(st) ==
  IF st = None THEN [k \in {} |-> <<>>]
  ELSE LET keyOf(i) == BatchKey([storeCount |-> i - 1, pageCount |-> 0])
           idx(k) == CHOOSE i \in 1..st.storeCount : keyOf(i) = k
       IN [k \in {keyOf(i) : i \in 1..st.storeCount} |->
             [j \in 1..PriorBatchSize(st, idx(k)) |-> PriorRecord(idx(k), j)]]

\* the batches in the store when the previous run wrote one more batch and
\* its STATE write failed or the process stopped before it (main.js:88-95):
\* the batch under the next key is stored and STATE does not count it
LaggingPages(st) ==
  LET base == PriorPages(st)
      cnt == IF st = None THEN DEFAULT_STATE ELSE st
      key == BatchKey(cnt)
  IN [k \in DOMAIN base \cup {key} |->
        IF k = key THEN <<PriorRecord(cnt.storeCount + 1, 1)>> ELSE base[k]]

\* what a previous run can leave: STATE with the batches it counts, or with
\* one batch more
PriorStores ==
  {[STATE |-> st, pages |-> PriorPages(st)] : st \in PriorStates}
    \cup {[STATE |-> st, pages |-> LaggingPages(st)] : st \in PriorStates}

Inputs == [concurrency : 0..MaxConcurrency, storePagesInterval : 0..MaxInterval,
           languages : BOOLEAN]

InitCommon ==
  /\ input \in Inputs
  /\ \E store \in PriorStores : kvState = store.STATE /\ kvPages = store.pages
  /\ wpc = [w \in Workers |-> "idle"]
  /\ page = [w \in Workers |-> None]
  /\ finishedPages = <<>>
  /\ isStoring = FALSE
  /\ flush = [c \in Callers |-> NoFlush]
  /\ tally = [dispatched |-> 0, completed |-> 0, fetchFailed |-> 0]
  /\ appended = 0
  /\ writeLog = <<>>
  /\ faulted = FALSE
  /\ lastCall = None

\* the state when the Apify.main callback is entered
Init ==
  /\ InitCommon
  /\ pc = "start"
  /\ state = None
  /\ storePagesInterval = DefaultStorePagesInterval
  /\ urls = <<>>
  /\ queue = <<>>
  /\ pushed = <<>>
  /\ loaded = None

\* ------------------------------------------------------------- main, part 1
\* main.js:238
Concurrency == IF input.concurrency > 0 THEN input.concurrency ELSE 1

\* faulty variant of SkipCrawled: one crawled position too few is skipped
SkipCrawled_offByOne(list, k) == IF k > 0 THEN Splice(list, 0, k - 1) ELSE list

\* main.js:241-244
SkipCrawled(list, k) == IF k > 0 THEN Splice(list, 0, k) ELSE list

\* main.js:115-130: getValue('INPUT') resolved and the input was accepted;
\* the frontier is the seed, the threshold is taken from the input and
\* getValue('STATE') is sent
Main_Input ==
  /\ pc = "start"
  /\ urls' = <<SUBSCENE_START>>
  /\ storePagesInterval' = IF input.storePagesInterval > 0
                             THEN input.storePagesInterval
                             ELSE storePagesInterval
  /\ pc' = "loadState"
  /\ UNCHANGED <<input, state, queue, wpc, page, finishedPages, isStoring,
                 flush, kvState, kvPages, tally, pushed, loaded, appended,
                 writeLog, faulted, lastCall>>

\* main.js:115-122: getValue('INPUT') rejects, or the input is rejected and
\* the main routine throws
Main_InputFail ==
  /\ pc = "start"
  /\ pc' = "failed"
  /\ UNCHANGED <<input, state, storePagesInterval, urls, queue, wpc, page,
                 finishedPages, isStoring, flush, kvState, kvPages, tally,
                 pushed, loaded, appended, writeLog, faulted, lastCall>>

\* main.js:130 and 238-254: getValue('STATE') resolved; the crawled prefix is
\* removed from urls, the rest is pushed to the queue and the main routine
\* waits for the drain, or goes on at once when nothing was pushed
Main_State ==
  /\ pc = "loadState"
  /\ LET st == IF kvState # None THEN kvState ELSE DEFAULT_STATE
         todo == SkipCrawled(urls, st.pageCount)
     IN /\ state' = st
        /\ urls' = todo
        /\ queue' = todo
        /\ pushed' = todo
        /\ loaded' = st
        /\ pc' = IF Len(todo) > 0 THEN "waiting" ELSE "final"
  /\ UNCHANGED <<input, storePagesInterval, wpc, page, finishedPages,
                 isStoring, flush, kvState, kvPages, tally, appended,
                 writeLog, faulted, lastCall>>

\* main.js:130: getValue('STATE') rejects and the main routine throws
Main_StateFail ==
  /\ pc = "loadState"
  /\ pc' = "failed"
  /\ UNCHANGED <<input, state, storePagesInterval, urls, queue, wpc, page,
                 finishedPages, isStoring, flush, kvState, kvPages, tally,
                 pushed, loaded, appended, writeLog, faulted, lastCall>>

\* ------------------------------------------------------------- async.queue
Active == {w \in Workers : wpc[w] # "idle"}

\* the queue starts workerFunc on the next task when a slot is free
Dispatch(w) ==
  /\ pc = "waiting"
  /\ queue # <<>>
  /\ wpc[w] = "idle"
  /\ \A v \in Workers : wpc[v] = "idle" => w <= v
  /\ Cardinality(Active) < Concurrency
  /\ wpc' = [wpc EXCEPT ![w] = "browse"]
  /\ page' = [page EXCEPT ![w] =
       [url |-> Head(queue), id |-> tally.dispatched + 1, errorInfo |-> FALSE]]
  /\ queue' = Tail(queue)
  /\ tally' = [tally EXCEPT !.dispatched = @ + 1]
  /\ UNCHANGED <<pc, input, state, storePagesInterval, urls, finishedPages,
                 isStoring, flush, kvState, kvPages, pushed, loaded, appended,
                 writeLog, faulted, lastCall>>

\* -------------------------------------------------------------- workerFunc
\* the try block of a work item ended in outcome how
Finish(how) ==
  [tally EXCEPT !.completed = @ + 1,
                !.fetchFailed = @ + (IF how = "fetchFailed" THEN 1 ELSE 0)]

\* the worker's position after `await maybeStoreData()` was entered; pg is
\* its page object at the call
WorkerAfterEnter(w, pg) ==
  IF Skips(FALSE)
    THEN /\ wpc' = [wpc EXCEPT ![w] = "idle"]
         /\ page' = [page EXCEPT ![w] = None]
    ELSE /\ wpc' = [wpc EXCEPT ![w] = "awaitPages"]
         /\ page' = [page EXCEPT ![w] = pg]

\* main.js:159 rejects: browser stays undefined, the catch records the error,
\* the finally block awaits nothing and maybeStoreData() is entered at once
FetchFailNoBrowser(w) ==
  /\ pc = "waiting"
  /\ wpc[w] = "browse"
  /\ tally' = Finish("fetchFailed")
  /\ Enter(w, FALSE)
  /\ WorkerAfterEnter(w, [page[w] EXCEPT !.errorInfo = TRUE])
  /\ UNCHANGED <<pc, input, state, storePagesInterval, urls, queue,
                 finishedPages, kvState, kvPages, pushed, loaded, appended, writeLog,
                 faulted>>

\* main.js:160-199 throws after the browser was opened (the cookie set-up,
\* which reads input.languages, the sleep, getCurrentUrl or the link script):
\* the catch records the error and the finally block awaits browser.close()
FetchFailOpened(w) ==
  /\ pc = "waiting"
  /\ wpc[w] = "browse"
  /\ tally' = Finish("fetchFailed")
  /\ wpc' = [wpc EXCEPT ![w] = "close"]
  /\ page' = [page EXCEPT ![w].errorInfo = TRUE]
  /\ UNCHANGED <<pc, input, state, storePagesInterval, urls, queue,
                 finishedPages, isStoring, flush, kvState, kvPages, pushed, loaded,
                 appended, writeLog, faulted, lastCall>>

LinkLists == {SubSeq(LinkNames, 1, n) : n \in 0..MaxLinks}

\* main.js:159-202: the page loads and the link script returns newURLs,
\* which are appended to urls; input.languages.join (main.js:160) throws a
\* TypeError when the input has no languages array
LinksOk(w, newURLs) ==
  /\ pc = "waiting"
  /\ wpc[w] = "browse"
  /\ input.languages
  /\ urls' = urls \o newURLs
  /\ wpc' = [wpc EXCEPT ![w] = "extract"]
  /\ UNCHANGED <<pc, input, state, storePagesInterval, queue, page,
                 finishedPages, isStoring, flush, kvState, kvPages, tally,
                 pushed, loaded, appended, writeLog, faulted, lastCall>>

\* main.js:204-216 throws (the subtitle script or the attachment request)
ExtractFail(w) ==
  /\ pc = "waiting"
  /\ wpc[w] = "extract"
  /\ tally' = Finish("extractFailed")
  /\ wpc' = [wpc EXCEPT ![w] = "close"]
  /\ page' = [page EXCEPT ![w].errorInfo = TRUE]
  /\ UNCHANGED <<pc, input, state, storePagesInterval, urls, queue,
                 finishedPages, isStoring, flush, kvState, kvPages, pushed, loaded,
                 appended, writeLog, faulted, lastCall>>

\* main.js:204-205: the page has no download button, the if is not taken
NoPayload(w) ==
  /\ pc = "waiting"
  /\ wpc[w] = "extract"
  /\ tally' = Finish("noPayload")
  /\ wpc' = [wpc EXCEPT ![w] = "close"]
  /\ UNCHANGED <<pc, input, state, storePagesInterval, urls, queue, page,
                 finishedPages, isStoring, flush, kvState, kvPages, pushed, loaded,
                 appended, writeLog, faulted, lastCall>>

\* main.js:204-217: the attachment is fetched and the page is buffered
PayloadOk(w) ==
  /\ pc = "waiting"
  /\ wpc[w] = "extract"
  /\ tally' = Finish("payload")
  /\ finishedPages' = Append(finishedPages, page[w])
  /\ appended' = appended + 1
  /\ wpc' = [wpc EXCEPT ![w] = "close"]
  /\ UNCHANGED <<pc, input, state, storePagesInterval, urls, queue, page,
                 isStoring, flush, kvState, kvPages, pushed, loaded, writeLog, faulted,
                 lastCall>>

\* main.js:223-231: browser.close() resolves and maybeStoreData() is entered
CloseOk(w) ==
  /\ pc = "waiting"
  /\ wpc[w] = "close"
  /\ Enter(w, FALSE)
  /\ WorkerAfterEnter(w, page[w])
  /\ UNCHANGED <<pc, input, state, storePagesInterval, urls, queue,
                 finishedPages, kvState, kvPages, tally, pushed, loaded, appended,
                 writeLog, faulted>>

\* main.js:223 rejects: workerFunc rejects, urlFinishedCallback logs the error
CloseFail(w) ==
  /\ pc = "waiting"
  /\ wpc[w] = "close"
  /\ wpc' = [wpc EXCEPT ![w] = "idle"]
  /\ page' = [page EXCEPT ![w] = None]
  /\ UNCHANGED <<pc, input, state, storePagesInterval, urls, queue,
                 finishedPages, isStoring, flush, kvState, kvPages, tally,
                 pushed, loaded, appended, writeLog, faulted, lastCall>>

\* ------------------------------------------- maybeStoreData past the guard
Pos(c) == IF c = Main THEN pc ELSE wpc[c]

\* a worker's flush runs while the queue is being drained, the main
\* routine's while it awaits maybeStoreData(true)
Awaiting(c, where) ==
  /\ Pos(c) = where
  /\ flush[c].active
  /\ c # Main => pc = "waiting"

\* the caller moves on to the second await of the call
ToAwaitState(c) ==
  IF c = Main
    THEN pc' = "awaitState" /\ UNCHANGED <<wpc, page>>
    ELSE wpc' = [wpc EXCEPT ![c] = "awaitState"] /\ UNCHANGED <<pc, page>>

\* maybeStoreData returns: a worker's task is finished, the main routine ends
Return(c) ==
  IF c = Main
    THEN pc' = "done" /\ UNCHANGED <<wpc, page>>
    ELSE /\ wpc' = [wpc EXCEPT ![c] = "idle"]
         /\ page' = [page EXCEPT ![c] = None]
         /\ UNCHANGED pc

\* faulty variant of Throw: the error of a forced call is swallowed too
Throw_swallowed(c) ==
  IF c = Main
    THEN pc' = "done" /\ UNCHANGED <<wpc, page>>
    ELSE /\ wpc' = [wpc EXCEPT ![c] = "idle"]
         /\ page' = [page EXCEPT ![c] = None]
         /\ UNCHANGED pc

\* maybeStoreData throws (main.js:105): the main routine fails, a worker's
\* task ends with an error that urlFinishedCallback logs
Throw(c) ==
  IF c = Main
    THEN pc' = "failed" /\ UNCHANGED <<wpc, page>>
    ELSE /\ wpc' = [wpc EXCEPT ![c] = "idle"]
         /\ page' = [page EXCEPT ![c] = None]
         /\ UNCHANGED pc

\* main.js:88-95: the batch write succeeded; the snapshot is removed from
\* the buffer, the counters advance and the STATE write is sent
PagesWriteOk(c) ==
  /\ Awaiting(c, "awaitPages")
  /\ kvPages' = [k \in DOMAIN kvPages \cup {flush[c].key} |->
                   IF k = flush[c].key THEN flush[c].pagesToStore ELSE kvPages[k]]
  /\ finishedPages' = RemoveStored(finishedPages, flush[c].pagesToStore)
  /\ state' = CountStored(state, flush[c].pagesToStore)
  /\ flush' = [flush EXCEPT ![c] =
       [active |-> TRUE, force |-> flush[c].force,
        pagesToStore |-> flush[c].pagesToStore, key |-> flush[c].key,
        stateSent |-> state']]
  /\ writeLog' = Append(writeLog,
       [key |-> flush[c].key, size |-> Len(flush[c].pagesToStore),
        force |-> flush[c].force])
  /\ ToAwaitState(c)
  /\ UNCHANGED <<input, storePagesInterval, urls, queue, isStoring, kvState,
                 tally, pushed, loaded, appended, faulted, lastCall>>

\* main.js:95-97 and 107-109: the STATE write succeeded
StateWriteOk(c) ==
  /\ Awaiting(c, "awaitState")
  /\ kvState' = flush[c].stateSent
  /\ isStoring' = FALSE
  /\ flush' = [flush EXCEPT ![c] = NoFlush]
  /\ Return(c)
  /\ UNCHANGED <<input, state, storePagesInterval, urls, queue, finishedPages,
                 kvPages, tally, pushed, loaded, appended, writeLog, faulted, lastCall>>

\* faulty variant of TooLarge: the capacity error is treated like any other
TooLarge_notFatal(c) ==
  /\ faulted' = TRUE
  /\ isStoring' = FALSE
  /\ flush' = [flush EXCEPT ![c] = NoFlush]
  /\ IF flush[c].force
       THEN IF c = Main
              THEN pc' = "failed" /\ UNCHANGED <<wpc, page>>
              ELSE wpc' = [wpc EXCEPT ![c] = "idle"] /\ UNCHANGED <<pc, page>>
       ELSE IF c = Main
              THEN pc' = "done" /\ UNCHANGED <<wpc, page>>
              ELSE wpc' = [wpc EXCEPT ![c] = "idle"] /\ UNCHANGED <<pc, page>>
  /\ UNCHANGED <<input, state, storePagesInterval, urls, queue, finishedPages,
                 kvState, kvPages, tally, pushed, loaded, appended, writeLog, lastCall>>

\* main.js:98-104: a write fails with 'The POST payload is too large' and
\* process.exit(1) ends the process
TooLarge(c) ==
  /\ faulted' = TRUE
  /\ pc' = "exited"
  /\ UNCHANGED <<input, state, storePagesInterval, urls, queue, wpc, page,
                 finishedPages, isStoring, flush, kvState, kvPages, tally,
                 pushed, loaded, appended, writeLog, lastCall>>

\* faulty variant of OtherError: the finally block is missing and isStoring
\* stays set
OtherError_guardStuck(c) ==
  /\ faulted' = TRUE
  /\ UNCHANGED isStoring
  /\ flush' = [flush EXCEPT ![c] = NoFlush]
  /\ IF flush[c].force THEN Throw(c) ELSE Return(c)
  /\ UNCHANGED <<input, state, storePagesInterval, urls, queue, finishedPages,
                 kvState, kvPages, tally, pushed, loaded, appended, writeLog, lastCall>>

\* main.js:98-109: a write fails with any other error; a forced call
\* rethrows, a non-forced call logs and returns; isStoring is cleared
OtherError(c) ==
  /\ faulted' = TRUE
  /\ isStoring' = FALSE
  /\ flush' = [flush EXCEPT ![c] = NoFlush]
  /\ IF flush[c].force THEN Throw(c) ELSE Return(c)
  /\ UNCHANGED <<input, state, storePagesInterval, urls, queue, finishedPages,
                 kvState, kvPages, tally, pushed, loaded, appended, writeLog, lastCall>>

PagesWriteTooLarge(c) == Awaiting(c, "awaitPages") /\ TooLarge(c)

\* faulty variant of PagesWriteError: the failed batch write is ignored and the
\* flush goes on to advance the counters and write STATE
PagesWriteError_goesOn(c) ==
  /\ Awaiting(c, "awaitPages")
  /\ faulted' = TRUE
  /\ state' = CountStored(state, flush[c].pagesToStore)
  /\ flush' = [flush EXCEPT ![c] =
       [active |-> TRUE, force |-> flush[c].force,
        pagesToStore |-> flush[c].pagesToStore, key |-> flush[c].key,
        stateSent |-> state']]
  /\ ToAwaitState(c)
  /\ UNCHANGED <<input, storePagesInterval, urls, queue, finishedPages,
                 isStoring, kvState, kvPages, tally, pushed, loaded, appended,
                 writeLog, lastCall>>

PagesWriteError(c) == Awaiting(c, "awaitPages") /\ OtherError(c)

StateWriteTooLarge(c) == Awaiting(c, "awaitState") /\ TooLarge(c)

StateWriteError(c) == Awaiting(c, "awaitState") /\ OtherError(c)

\* ------------------------------------------------------------- main, part 2
\* faulty variant of Main_Drain: the main routine goes on as soon as the
\* queue is empty, while workers are still running
Main_Drain_early ==
  /\ pc = "waiting"
  /\ queue = <<>>
  /\ pc' = "final"
  /\ UNCHANGED <<input, state, storePagesInterval, urls, queue, wpc, page,
                 finishedPages, isStoring, flush, kvState, kvPages, tally,
                 pushed, loaded, appended, writeLog, faulted, lastCall>>

\* main.js:250-254: q.drain resolves the promise the main routine awaits
Main_Drain ==
  /\ pc = "waiting"
  /\ queue = <<>>
  /\ Active = {}
  /\ pc' = "final"
  /\ UNCHANGED <<input, state, storePagesInterval, urls, queue, wpc, page,
                 finishedPages, isStoring, flush, kvState, kvPages, tally,
                 pushed, loaded, appended, writeLog, faulted, lastCall>>

\* main.js:256: await maybeStoreData(true)
Main_FinalFlush ==
  /\ pc = "final"
  /\ Enter(Main, TRUE)
  /\ pc' = IF Skips(TRUE) THEN "done" ELSE "awaitPages"
  /\ UNCHANGED <<input, state, storePagesInterval, urls, queue, wpc, page,
                 finishedPages, kvState, kvPages, tally, pushed, loaded, appended,
                 writeLog, faulted>>

\* ------------------------------------------------------------- the program
Next ==
  \/ Main_Input
  \/ Main_InputFail
  \/ Main_State
  \/ Main_StateFail
  \/ \E w \in Workers : Dispatch(w)
  \/ \E w \in Workers : FetchFailNoBrowser(w)
  \/ \E w \in Workers : FetchFailOpened(w)
  \/ \E w \in Workers : \E newURLs \in LinkLists : LinksOk(w, newURLs)
  \/ \E w \in Workers : ExtractFail(w)
  \/ \E w \in Workers : NoPayload(w)
  \/ \E w \in Workers : PayloadOk(w)
  \/ \E w \in Workers : CloseOk(w)
  \/ \E w \in Workers : CloseFail(w)
  \/ \E c \in Callers : PagesWriteOk(c)
  \/ \E c \in Callers : PagesWriteTooLarge(c)
  \/ \E c \in Callers : PagesWriteError(c)
  \/ \E c \in Callers : StateWriteOk(c)
  \/ \E c \in Callers : StateWriteTooLarge(c)
  \/ \E c \in Callers : StateWriteError(c)
  \/ Main_Drain
  \/ Main_FinalFlush

Spec == Init /\ [][Next]_vars

TypeOK ==
  /\ pc \in {"start", "loadState", "waiting", "final", "awaitPages",
             "awaitState", "done", "failed", "exited"}
  /\ \A w \in Workers :
       wpc[w] \in {"idle", "browse", "extract", "close", "awaitPages", "awaitState"}
  /\ isStoring \in BOOLEAN
  /\ appended \in Nat

\* ------------------------------------------------------------------ claims
\* a worker enters `await maybeStoreData()` in this step
NonForcedCall(w) == CloseOk(w) \/ FetchFailNoBrowser(w)

\* C1: a non-forced call of maybeStoreData starts a batch write if and only
\* if the buffer holds at least storePagesInterval records at the check and
\* no flush is in progress; below the threshold nothing is sent to the store.
C1_FlushThreshold ==
  [][\A w \in Workers :
       NonForcedCall(w) =>
         /\ (wpc'[w] = "awaitPages" /\ flush'[w].active)
              <=> (Len(finishedPages) >= storePagesInterval /\ ~isStoring)
         /\ Len(finishedPages) < storePagesInterval =>
              (wpc'[w] = "idle" /\ flush' = flush /\ isStoring' = isStoring)
         /\ kvPages' = kvPages /\ kvState' = kvState]_vars

C1_Witness ==
  /\ lastCall # None
  /\ ~lastCall.force
  /\ lastCall.wrote
  /\ lastCall.buffered >= storePagesInterval
  /\ \E w \in Workers : wpc[w] = "awaitPages" /\ flush[w].active

\* C2 (as claimed): outside a flush in progress, state.pageCount is the number
\* of records in all batches in the store and state.storeCount the number of
\* batches; neither counter ever decreases.
C2_CountersMatchBatches ==
  /\ []((state # None /\ ~isStoring) =>
          /\ state.pageCount = TotalRecords(kvPages)
          /\ state.storeCount = NumBatches(kvPages))
  /\ [][(state # None /\ state' # None) =>
          /\ state'.pageCount >= state.pageCount
          /\ state'.storeCount >= state.storeCount]_vars

\* C3: at most one call of maybeStoreData is between setting isStoring and
\* clearing it; a call that finds isStoring set returns without writing and
\* leaves nothing behind that would replay it.  The queue is only ever given
\* the seed (main.js:246-248) and the main routine calls after the drain, so
\* no run has a call that finds isStoring set.
FlushesInProgress == {c \in Callers : flush[c].active}

C3_AtMostOneFlush ==
  /\ [](Cardinality(FlushesInProgress) <= 1)
  /\ [](FlushesInProgress # {} => isStoring)
  /\ [][\A w \in Workers :
          (NonForcedCall(w) /\ isStoring) =>
            /\ wpc'[w] = "idle"
            /\ flush' = flush
            /\ isStoring' = isStoring
            /\ kvPages' = kvPages /\ kvState' = kvState
            /\ finishedPages' = finishedPages]_vars

\* C4: with a persisted pageCount of k, the URLs pushed to the queue are the
\* seeds from position k on, in order (none when k is at least the number of
\* seeds), and nothing else is enqueued, so the first k seeds are never
\* dispatched.
Seeds == <<SUBSCENE_START>>
PersistedPageCount == IF kvState = None THEN 0 ELSE kvState.pageCount
SeedsFrom(k) == SubSeq(Seeds, k + 1, Len(Seeds))

C4_ResumeSkip ==
  [][/\ (pc = "loadState" /\ pc' # "failed") =>
          (pushed' = SeedsFrom(PersistedPageCount) /\ queue' = pushed')
     /\ ~(pc = "loadState" /\ pc' # "failed") =>
          /\ pushed' = pushed
          /\ queue' = queue \/ (queue # <<>> /\ queue' = Tail(queue))]_vars

C4_Witness ==
  /\ pc = "done"
  /\ kvState # None
  /\ kvState.pageCount >= 2
  /\ pushed = <<>>
  /\ tally.dispatched = 0

\* C5 (as claimed): every completed invocation of workerFunc has appended
\* exactly one record to finishedPages.
C5_OneRecordPerItem == appended = tally.completed

\* C6 (as claimed): every work item whose fetch failed has its record, with
\* errorInfo, in the buffer or in a stored batch.
RECURSIVE ErrorsIn(_)
ErrorsIn(batch) ==
  IF batch = <<>> THEN 0
  ELSE (IF Head(batch).errorInfo THEN 1 ELSE 0) + ErrorsIn(Tail(batch))

RECURSIVE ErrorsStored(_)
ErrorsStored(keys) ==
  IF keys = {} THEN 0
  ELSE LET k == CHOOSE x \in keys : TRUE
       IN ErrorsIn(kvPages[k]) + ErrorsStored(keys \ {k})

C6_FailedItemRecorded ==
  ErrorsIn(finishedPages) + ErrorsStored(DOMAIN kvPages) >= tally.fetchFailed

\* C7 (as claimed): the crawl does not finalize while a URL of the frontier
\* has not been enqueued and dispatched.
C7_DiscoveredDispatched ==
  pc \in {"final", "done"} => (urls = pushed /\ tally.dispatched = Len(urls))

\* C8: once the final forced flush has written its batch, finishedPages is
\* empty and the batches written in this run hold every record ever appended;
\* the run never completes with a record left in the buffer.
FinalBatchWritten == writeLog # <<>> /\ writeLog[Len(writeLog)].force

C8_FinalFlushDrains ==
  /\ FinalBatchWritten => (finishedPages = <<>> /\ SumSizes(writeLog) = appended)
  /\ pc = "done" => (finishedPages = <<>> /\ SumSizes(writeLog) = appended)

C8_Witness ==
  /\ pc = "done"
  /\ FinalBatchWritten
  /\ appended >= 1
  /\ finishedPages = <<>>
  /\ kvState = state

\* C9 (as claimed): seed a, threshold 2, concurrency 1, a yields b and c and
\* every processed page has a payload: the run ends with two batches, of 2
\* records under PAGES-000000001 and of 1 under PAGES-000000002, and with
\* STATE = {pageCount 3, storeCount 2}.
C9_Scenario ==
  /\ input.storePagesInterval = 2
  /\ input.concurrency = 1
  /\ urls = <<"a", "b", "c">>
  /\ ~faulted
  /\ tally.completed = tally.dispatched
  /\ appended = tally.completed
  /\ NumBatches(kvPages) = Len(writeLog)

C9_ConcreteScenario ==
  (C9_Scenario /\ pc = "done") =>
    /\ kvState = [storeCount |-> 2, pageCount |-> 3]
    /\ DOMAIN kvPages = {"PAGES-000000001", "PAGES-000000002"}
    /\ Len(kvPages["PAGES-000000001"]) = 2
    /\ Len(kvPages["PAGES-000000002"]) = 1

\* C10: the STATE record in the store never counts more records or batches
\* than the store holds; STATE is written only by a flush whose batch is in
\* the store, and a flush whose batch write failed does not write it.
C10_StateNeverAhead ==
  /\ [](kvState # None => /\ kvState.pageCount <= TotalRecords(kvPages)
                          /\ kvState.storeCount <= NumBatches(kvPages))
  /\ [][kvState' # kvState =>
          \E c \in Callers :
            /\ flush[c].active
            /\ flush[c].key \in DOMAIN kvPages
            /\ kvPages[flush[c].key] = flush[c].pagesToStore
            /\ kvState' = state
            /\ kvPages' = kvPages]_vars

C10_Witness ==
  /\ faulted
  /\ Len(writeLog) >= 1
  /\ kvState # None
  /\ kvState.storeCount = NumBatches(kvPages)
  /\ ~isStoring

\* ------------------------------------------------------ crash and restart
\* the process ends (it completed, failed, exited or crashed at any point
\* after start-up) and the act is started again on the same store and
\* input: the module-level variables of main.js:56-66 are initialised anew
Restart ==
  /\ pc # "start"
  /\ pc' = "start"
  /\ state' = None
  /\ storePagesInterval' = DefaultStorePagesInterval
  /\ urls' = <<>>
  /\ queue' = <<>>
  /\ wpc' = [w \in Workers |-> "idle"]
  /\ page' = [w \in Workers |-> None]
  /\ finishedPages' = <<>>
  /\ isStoring' = FALSE
  /\ flush' = [c \in Callers |-> NoFlush]
  /\ tally' = [dispatched |-> 0, completed |-> 0, fetchFailed |-> 0]
  /\ pushed' = <<>>
  /\ loaded' = None
  /\ appended' = 0
  /\ writeLog' = <<>>
  /\ faulted' = FALSE
  /\ lastCall' = None
  /\ UNCHANGED <<input, kvState, kvPages>>

NextRestart ==
  \/ Next
  \/ Restart

SpecRestart == Init /\ [][NextRestart]_vars

\* C11 (as claimed): over flushes, storage failures, crashes and restarts,
\* no batch write goes to a key that already holds a stored batch, so every
\* stored record stays in exactly one batch.
C11_NoBatchOverwritten ==
  [][\A c \in Callers : PagesWriteOk(c) => flush[c].key \notin DOMAIN kvPages]_vars

\* C12: every batch key is PAGES- followed by storeCount+1 padded with zeros
\* to 9 digits, taken from storeCount when the flush starts; the keys of the
\* successful batch writes of a run are consecutive, starting one above the
\* storeCount the run loaded.  A run writes at most one batch, and only when
\* it loaded storeCount 0, so no run has two keys to put in order.
ExpectedKey(n) ==
  <<"PAGES-000000001", "PAGES-000000002", "PAGES-000000003", "PAGES-000000004",
    "PAGES-000000005", "PAGES-000000006", "PAGES-000000007", "PAGES-000000008",
    "PAGES-000000009", "PAGES-000000010", "PAGES-000000011", "PAGES-000000012">>[n]

C12_BatchKeys ==
  /\ \A i \in 1..Len(writeLog) :
       writeLog[i].key = ExpectedKey(loaded.storeCount + i)
  /\ \A c \in Callers :
       (flush[c].active /\ Pos(c) = "awaitPages") =>
         flush[c].key = ExpectedKey(state.storeCount + 1)
  /\ \A c \in Callers :
       (flush[c].active /\ Pos(c) = "awaitState") =>
         flush[c].key = ExpectedKey(state.storeCount)

\* C13: a payload-too-large error of a store write, in a forced or a
\* non-forced flush, ends the process at once: the step leaves the store
\* alone and nothing at all happens after it.
IsTooLarge(c) == PagesWriteTooLarge(c) \/ StateWriteTooLarge(c)

C13_CapacityErrorIsFatal ==
  [][/\ pc # "exited"
     /\ \A c \in Callers :
          IsTooLarge(c) =>
            (pc' = "exited" /\ kvPages' = kvPages /\ kvState' = kvState)]_vars

C13_Witness ==
  /\ pc = "exited"
  /\ faulted
  /\ \E w \in Workers : wpc[w] = "awaitState" /\ flush[w].active

\* C14: a non-capacity error of the batch write of a non-forced flush is
\* swallowed: the buffer and the counters are unchanged, isStoring is
\* cleared, the crawl goes on, the records of the failed snapshot stay at the
\* head of the buffer, and every batch write that starts takes the whole
\* buffer, so the next attempt carries all of them.
IsPrefix(a, b) == Len(a) <= Len(b) /\ a = SubSeq(b, 1, Len(a))

C14_NonForcedErrorSwallowed ==
  [][/\ \A w \in Workers :
          PagesWriteError(w) =>
            /\ finishedPages' = finishedPages
            /\ state' = state
            /\ kvPages' = kvPages /\ kvState' = kvState
            /\ ~isStoring'
            /\ pc' = "waiting"
            /\ wpc'[w] = "idle"
            /\ IsPrefix(flush[w].pagesToStore, finishedPages')
     /\ \A c \in Callers :
          (~flush[c].active /\ flush'[c].active) =>
            flush'[c].pagesToStore = finishedPages
     /\ (Len(finishedPages') < Len(finishedPages)) =>
          \E c \in Callers : PagesWriteOk(c)]_vars

C14_Witness ==
  /\ faulted
  /\ writeLog = <<>>
  /\ pc = "awaitPages"
  /\ flush[Main].active
  /\ flush[Main].pagesToStore = finishedPages
  /\ Len(finishedPages) >= 1

\* C15: a non-capacity error of a store write of the final forced flush is
\* raised to the main routine: the run ends failed, never done.
C15_ForcedErrorPropagates ==
  [][/\ (PagesWriteError(Main) \/ StateWriteError(Main)) => pc' = "failed"
     /\ pc = "failed" => pc' = "failed"]_vars

C15_Witness ==
  /\ pc = "failed"
  /\ faulted
  /\ lastCall.force
  /\ ~isStoring

\* C16 (as claimed): without a positive input.storePagesInterval the flush
\* threshold is the documented default of 10.
DocumentedStorePagesInterval == 10

C16_DefaultThreshold ==
  (pc \in {"loadState", "waiting", "final"} /\ input.storePagesInterval <= 0) =>
    storePagesInterval = DocumentedStorePagesInterval

\* C17: a successful batch write removes from the buffer exactly the records
\* of its snapshot: the snapshot is the head of the buffer, the batch stored
\* is the snapshot, and the records appended since stay, in order.  With the
\* seed as the only task no record is appended while a write is awaited, so
\* in every run the buffer is the snapshot when the write resolves.
C17_SnapshotRemoved ==
  [][\A c \in Callers :
       PagesWriteOk(c) =>
         /\ finishedPages = flush[c].pagesToStore \o finishedPages'
         /\ kvPages'[flush[c].key] = flush[c].pagesToStore
         /\ \A i \in 1..Len(finishedPages') :
              \A j \in 1..Len(flush[c].pagesToStore) :
                finishedPages'[i] # flush[c].pagesToStore[j]]_vars

\* C18 (as claimed): the crawl never goes on, outside a flush, with a
\* persisted STATE that lags the batches this run has written.
C18_StateFailureIsFatal ==
  (pc \in {"waiting", "final", "done"} /\ ~isStoring /\ writeLog # <<>>) =>
    kvState = state

\* C19: when the main routine calls maybeStoreData(true) no flush is in
\* progress, so with a non-empty buffer the call starts a batch write, which
\* ends written or in an error; it never returns having done nothing.
C19_FinalFlushNotSkipped ==
  /\ [](pc = "final" => (~isStoring /\ \A c \in Callers : ~flush[c].active))
  /\ [][(Main_FinalFlush /\ finishedPages # <<>>) =>
          /\ pc' = "awaitPages"
          /\ flush'[Main].active
          /\ flush'[Main].pagesToStore = finishedPages]_vars
  /\ [][(pc = "awaitPages" /\ pc' # pc) =>
          \/ (pc' = "awaitState" /\ writeLog' # writeLog)
          \/ pc' \in {"failed", "exited"}]_vars

C19_Witness ==
  /\ pc = "awaitPages"
  /\ lastCall.force
  /\ lastCall.wrote
  /\ ~lastCall.busy
  /\ lastCall.buffered >= 1
  /\ tally.completed >= 1

\* C20: a swallowed STATE write failure of a non-forced flush leaves the
\* advanced counters and the shortened buffer as they are; no key is written
\* twice in a run; and every STATE write that succeeds stores counters equal
\* to the records and the batches in the store.  After the failure the
\* buffer is empty and the seed was the only task, so no run has a flush
\* after it.
C20_SwallowedStateFailure ==
  /\ [][\A w \in Workers :
          StateWriteError(w) =>
            /\ state' = state
            /\ finishedPages' = finishedPages
            /\ state.storeCount = loaded.storeCount + Len(writeLog)
            /\ ~isStoring'
            /\ pc' = "waiting"]_vars
  /\ [](\A i, j \in 1..Len(writeLog) : i # j => writeLog[i].key # writeLog[j].key)
  /\ [][kvState' # kvState =>
          /\ kvState'.pageCount = TotalRecords(kvPages')
          /\ kvState'.storeCount = NumBatches(kvPages')]_vars

====
